---------------------------- MODULE Spec2Model ----------------------------
(***************************************************************************)
(* Model of OllamaChatExperiment                                           *)
(* (src/prompttools/experiment/experiments/ollama_chat_experiment.py).     *)
(*                                                                         *)
(* Python values are written as strings: None is "None", float("inf") is   *)
(* "inf", a message list is an identifier such as "m1", a PromptSelector   *)
(* is an identifier such as "s1".  Distinct strings stand for values that  *)
(* Python's == tells apart.  A dict is a record [order, map]: the keys in  *)
(* insertion order and the mapping.  Identifiers assigned by the remote    *)
(* store are positive integers and NoneId stands for None.                 *)
(***************************************************************************)
EXTENDS Integers, Sequences, FiniteSets, TLC

VARIABLES
    all_args,         \* self.all_args: the ParameterSet (a dict of lists)
    prompt_keys,      \* self.prompt_keys: the PromptKeyMap
    argument_combos,  \* self.argument_combos, set by prepare()
    queue,            \* self.queue: the three parallel sequences
    full_df,          \* self.full_df
    partial_df,       \* self.partial_df
    score_df,         \* self.score_df
    experiment_id,    \* self._experiment_id
    revision_id,      \* self._revision_id
    env_key,          \* whether HEGELAI_API_KEY is set in os.environ
    store,            \* the blobs held by the remote store
    saved,            \* for each blob, the instance state when it was saved
    loaded,           \* the value returned by the last load call
    last,             \* the last call: its name, inputs and outcome
    defaults,         \* the default list objects of __init__'s signature
    shared,           \* the keys of self.all_args whose list is a default object
    other             \* a second instance of the class

vars == <<all_args, prompt_keys, argument_combos, queue, full_df, partial_df,
          score_df, experiment_id, revision_id, env_key, store, saved,
          loaded, last, defaults, shared, other>>

-----------------------------------------------------------------------------
(* Bounds *)

MaxQueue == 3
MaxStoreQueue == 2
MaxRevisions == 1

-----------------------------------------------------------------------------
(* Sequences and dicts *)

Range(s) == {s[i] : i \in 1..Len(s)}

In(v, s) == \E i \in 1..Len(s) : s[i] = v

IndexOf(s, v) == CHOOSE i \in 1..Len(s) : s[i] = v

NoDup(s) == \A i, j \in 1..Len(s) : s[i] = s[j] => i = j

RECURSIVE Flatten(_)
Flatten(ss) == IF ss = <<>> THEN <<>> ELSE Head(ss) \o Flatten(Tail(ss))

DictHas(d, k) == k \in DOMAIN d.map

DictSet(d, k, v) ==
    IF DictHas(d, k)
    THEN [order |-> d.order, map |-> [d.map EXCEPT ![k] = v]]
    ELSE [order |-> Append(d.order, k),
          map   |-> [x \in (DOMAIN d.map) \cup {k} |->
                        IF x = k THEN v ELSE d.map[x]]]

DictDel(d, k) ==
    [order |-> SelectSeq(d.order, LAMBDA x : x # k),
     map   |-> [x \in (DOMAIN d.map) \ {k} |-> d.map[x]]]

DictFromPairs(keys, vals) ==
    [order |-> keys,
     map   |-> [k \in Range(keys) |-> vals[IndexOf(keys, k)]]]

-----------------------------------------------------------------------------
(* Values *)

NoneVal == "None"
InfVal == "inf"
ExperimentType == "RawExperiment"
NoneId == 0

\* Keys of self.all_args in the order the constructor inserts them.
ArgKeys == <<"model", "messages", "temperature", "functions",
             "function_call", "top_p", "n", "stream", "stop", "max_tokens",
             "presence_penalty", "frequency_penalty", "logit_bias", "seed",
             "response_format">>

\* Default candidate lists of the constructor's signature.
DefaultArgs ==
    [model |-> <<"llama3.1">>, messages |-> <<>>, temperature |-> <<"1.0">>,
     functions |-> <<NoneVal>>, function_call |-> <<NoneVal>>,
     top_p |-> <<"1.0">>, n |-> <<"1">>, stream |-> <<"False">>,
     stop |-> <<NoneVal>>, max_tokens |-> <<InfVal>>,
     presence_penalty |-> <<"0.0">>, frequency_penalty |-> <<"0.0">>,
     logit_bias |-> <<NoneVal>>, seed |-> <<NoneVal>>,
     response_format |-> <<NoneVal>>]

\* Default single values of run_one's signature.
RunOneDefaults ==
    [temperature |-> "1.0", top_p |-> "1.0", n |-> "1", stream |-> "False",
     stop |-> NoneVal, max_tokens |-> InfVal, presence_penalty |-> "0.0",
     frequency_penalty |-> "0.0", logit_bias |-> NoneVal,
     response_format |-> NoneVal, seed |-> NoneVal, functions |-> NoneVal,
     function_call |-> NoneVal]

\* The PromptSelector collaborator: two renderings of a conversation.
Selectors == {"s1", "s2"}
IsPromptSelector(v) == v \in Selectors
ForOpenAIChat(s) == IF s = "s1" THEN "m1" ELSE "m2"
ForLlama(s) == IF s = "s1" THEN "l1" ELSE "l2"
\* str(messages[-1]["content"]) of a rendered message list.
LastContent(m) == IF m = "m1" THEN "c1" ELSE IF m = "m2" THEN "c2" ELSE "c3"

-----------------------------------------------------------------------------
(* Construction *)

ListKeys(messages) == [kind |-> "list", list |-> messages, dict |-> <<>>]

SelectorKeys(messages) ==
    [kind |-> "dict", list |-> <<>>,
     dict |-> [c \in {LastContent(ForOpenAIChat(messages[i])) :
                        i \in 1..Len(messages)} |->
                 ForLlama(CHOOSE s \in Range(messages) :
                            LastContent(ForOpenAIChat(s)) = c)]]

UsesSelectors(messages) == Len(messages) > 0 /\ IsPromptSelector(messages[1])

\* self.prompt_keys after __init__.  With plain message lists it is the very
\* list object stored under all_args["messages"] (kind "list").
InitPromptKeys(messages) ==
    IF UsesSelectors(messages) THEN SelectorKeys(messages)
    ELSE ListKeys(messages)

InitMessages(messages) ==
    IF UsesSelectors(messages)
    THEN [i \in 1..Len(messages) |-> ForOpenAIChat(messages[i])]
    ELSE messages

\* self.all_args after __init__ called with the given candidate lists.
InitAllArgs(given) ==
    LET full == DictFromPairs(ArgKeys,
                   [i \in 1..Len(ArgKeys) |->
                      IF ArgKeys[i] = "messages"
                      THEN InitMessages(given.messages)
                      ELSE given[ArgKeys[i]]])
    IN IF full.map["logit_bias"] = <<NoneVal>>
       THEN DictDel(full, "logit_bias") ELSE full

-----------------------------------------------------------------------------
(* Combination Expander *)

\* itertools.product(*lists): the last list varies fastest.
RECURSIVE Product(_)
Product(lists) ==
    IF lists = <<>> THEN << <<>> >>
    ELSE LET rest == Product(Tail(lists))
             hd   == Head(lists)
         IN Flatten([i \in 1..Len(hd) |->
                       [j \in 1..Len(rest) |-> <<hd[i]>> \o rest[j]]])

\* dict(zip(keys, val))
Zip(keys, val) == [k \in Range(keys) |-> val[IndexOf(keys, k)]]

\* [dict(zip(d, val)) for val in itertools.product(*d.values())]
Expand(d) ==
    LET tuples == Product([i \in 1..Len(d.order) |-> d.map[d.order[i]]])
    IN [j \in 1..Len(tuples) |-> Zip(d.order, tuples[j])]

\* prepare() of the base class
Prepare(args) == Expand(args)

PartialAllArgs_Appended(args, arg_name, arg_value) ==
    DictSet(args, arg_name,
            IF DictHas(args, arg_name)
            THEN Append(args.map[arg_name], arg_value) ELSE <<arg_value>>)

\* copy.deepcopy(self.all_args); partial_all_args[arg_name] = [arg_value]
PartialAllArgs(args, arg_name, arg_value) ==
    DictSet(args, arg_name, <<arg_value>>)

FilterPayload_KeepsInf(combo) ==
    [k \in {x \in DOMAIN combo : combo[x] # NoneVal} |-> combo[k]]

\* {k: v for k, v in combo.items() if (v is not None) and (v != float("inf"))}
FilterPayload(combo) ==
    [k \in {x \in DOMAIN combo : combo[x] # NoneVal /\ combo[x] # InfVal} |->
       combo[k]]

-----------------------------------------------------------------------------
(* Request Queue *)

EmptyQueue == [input_args |-> <<>>, results |-> <<>>, latencies |-> <<>>]

\* What one enqueue can do: record a result, record a failure marker, or
\* produce no record at all.
Outcomes == {"ok", "drop"}
Latency == 1

Enqueue(q, args, outcome) ==
    IF outcome = "drop" THEN q
    ELSE [input_args |-> Append(q.input_args, args),
          results    |-> Append(q.results, outcome),
          latencies  |-> Append(q.latencies, Latency)]

RECURSIVE EnqueueAll(_, _, _)
EnqueueAll(q, payloads, outcomes) ==
    IF payloads = <<>> THEN q
    ELSE EnqueueAll(Enqueue(q, Head(payloads), Head(outcomes)),
                    Tail(payloads), Tail(outcomes))

GetResults(q) == q.results

-----------------------------------------------------------------------------
(* Result Table Builder *)

NoneDf == [isNone |-> TRUE, cols |-> <<>>, rows |-> <<>>]

NaN == "NaN"

Rows(df) == IF df.isNone THEN 0 ELSE Len(df.rows)

\* df[names]: the projection of a table onto some of its columns
Project(df, names) ==
    [isNone |-> FALSE, cols |-> names,
     rows |-> [i \in 1..Len(df.rows) |->
                 [c \in Range(names) |-> df.rows[i][c]]]]

InputCols(q) ==
    SelectSeq(ArgKeys \o <<"bogus">>,
              LAMBDA k : \E i \in 1..Len(q.input_args) :
                            k \in DOMAIN q.input_args[i])

ResponseCols == <<"response", "latency">>

ConstructFull(q) ==
    LET ic == InputCols(q)
    IN [isNone |-> FALSE, cols |-> ic \o ResponseCols,
        rows |-> [i \in 1..Len(q.results) |->
                   [c \in Range(ic) \cup Range(ResponseCols) |->
                      IF c = "response" THEN q.results[i]
                      ELSE IF c = "latency" THEN q.latencies[i]
                      ELSE IF c \in DOMAIN q.input_args[i]
                           THEN q.input_args[i][c] ELSE NaN]]]

ConstructPartial(q) == Project(ConstructFull(q), InputCols(q))

ConstructScore(q) == Project(ConstructFull(q), <<>>)

-----------------------------------------------------------------------------
(* Instances *)

\* An instance as __init__ leaves it (the base class starts with an empty
\* queue, no combinations, no tables and no identifiers).
NewInstance(given) ==
    [isNone |-> FALSE,
     all_args |-> InitAllArgs(given),
     prompt_keys |-> InitPromptKeys(given.messages),
     argument_combos |-> <<>>,
     queue |-> EmptyQueue,
     full_df |-> NoneDf, partial_df |-> NoneDf, score_df |-> NoneDf,
     experiment_id |-> NoneId, revision_id |-> NoneId]

\* The value of a call that returned None or raised.
NoInstance == [NewInstance(DefaultArgs) EXCEPT !.isNone = TRUE]

-----------------------------------------------------------------------------
(* The record of the last call *)

NoCall ==
    [op |-> "init", err |-> "None", nkw |-> 0, name |-> "None",
     value |-> "None", combos |-> <<>>, payloads |-> <<>>,
     posted |-> FALSE, req |-> NoneId, src |-> 0, stable |-> FALSE]

Call(op, err) == [NoCall EXCEPT !.op = op, !.err = err]

-----------------------------------------------------------------------------
(* The default list objects *)

\* A parameter the caller leaves out is bound to the list object created
\* once with the def statement, so every instance built that way stores the
\* same object under that key, and an append through one is seen by all.

\* The keys of an instance's all_args bound to default objects, when the
\* caller passed the parameters in explicit
SharedKeys(args, explicit) == (DOMAIN args.map) \ explicit

\* The default objects after the lists of self.all_args became those of args
DefaultsAfter(defs, shr, args) ==
    [k \in DOMAIN defs |->
       IF k \in shr /\ DictHas(args, k) THEN args.map[k] ELSE defs[k]]

NoOther ==
    [isNone |-> TRUE, all_args |-> InitAllArgs(DefaultArgs),
     prompt_keys |-> InitPromptKeys(DefaultArgs.messages), shared |-> {}]

\* The second instance after the lists of self.all_args became those of
\* args: it sees the lists that are the same default objects.
OtherAfter(oth, shr, args) ==
    LET both == {k \in oth.shared \cap shr : DictHas(args, k)}
        synced == [oth.all_args EXCEPT !.map =
                     [k \in DOMAIN oth.all_args.map |->
                        IF k \in both THEN args.map[k]
                        ELSE oth.all_args.map[k]]]
    IN IF oth.isNone THEN oth
       ELSE [oth EXCEPT
               !.all_args = synced,
               !.prompt_keys =
                  IF oth.prompt_keys.kind = "list"
                  THEN [@ EXCEPT !.list = synced.map["messages"]] ELSE @]

-----------------------------------------------------------------------------
(* Incremental Run Controller: run_partial *)

TooManyKwargs_Two(n) == n > 2

\* len(kwargs) > 1
TooManyKwargs(n) == n > 1

\* len(self.queue.get_results()) - original_n_results == 0
NoNewResults(delta) == delta = 0

\* arg_value after the PromptSelector rendering of lines 334-336
RenderArg(arg_name, orig) ==
    IF arg_name = "messages" /\ IsPromptSelector(orig)
    THEN ForOpenAIChat(orig) ELSE orig

\* self.prompt_keys.append(v): with kind "list" the list is the one stored
\* under all_args["messages"], so both names see the new element.
AppendToPromptKeys(st, v) ==
    [st EXCEPT !.keys.list = Append(@, v),
               !.args.map["messages"] = Append(@, v)]

\* self.all_args[arg_name].append(v)
AppendToAllArgs(st, arg_name, v) ==
    IF arg_name = "messages" /\ st.keys.kind = "list"
    THEN [st EXCEPT !.args.map[arg_name] = Append(@, v),
                    !.keys.list = Append(@, v)]
    ELSE [st EXCEPT !.args.map[arg_name] = Append(@, v)]

\* self.prompt_keys[str(orig.for_openai_chat()[-1]["content"])] = orig.for_llama()
SetPromptKey(st, orig) ==
    LET c == LastContent(ForOpenAIChat(orig))
    IN [st EXCEPT !.keys.dict =
          [x \in (DOMAIN st.keys.dict) \cup {c} |->
             IF x = c THEN ForLlama(orig) ELSE st.keys.dict[x]]]

\* Lines 363-373: extend the master ParameterSet when the value is new.
\* The result is the error raised ("None" when none) and the new state.
ExtendMaster(args, keys, arg_name, orig, arg_value) ==
    LET st == [args |-> args, keys |-> keys, err |-> "None"]
    IN IF ~DictHas(args, arg_name) THEN [st EXCEPT !.err = "KeyError"]
       ELSE IF In(arg_value, args.map[arg_name]) THEN st
       ELSE IF arg_name = "messages"
            THEN IF IsPromptSelector(orig)
                 THEN IF keys.kind = "list"
                      THEN [st EXCEPT !.err = "TypeError"]
                      ELSE AppendToAllArgs(SetPromptKey(st, orig),
                                           arg_name, arg_value)
                 ELSE IF keys.kind = "dict"
                      THEN [st EXCEPT !.err = "AttributeError"]
                      ELSE AppendToAllArgs(AppendToPromptKeys(st, arg_value),
                                           arg_name, arg_value)
            ELSE AppendToAllArgs(st, arg_name, arg_value)

\* partial_argument_combos of lines 338-343
PartialCombos(args, arg_name, arg_value) ==
    Expand(PartialAllArgs(args, arg_name, arg_value))

Payloads(combos) == [i \in 1..Len(combos) |-> FilterPayload(combos[i])]

\* The (name, value) pairs run_partial is called with.
PartialInputs ==
    {<<"model", "a">>, <<"model", "c">>, <<"messages", "m2">>,
     <<"messages", "s2">>, <<"logit_bias", "lb1">>, <<"bogus", "x">>}

KwargsInputs ==
    {<<>>} \cup {<<p>> : p \in PartialInputs}
           \cup {<< <<"model", "c">>, <<"messages", "m2">> >>}

RunPartialRejected(kwargs) ==
    /\ TooManyKwargs(Len(kwargs))
    /\ last' = [Call("run_partial", "RuntimeError") EXCEPT !.nkw = Len(kwargs)]
    /\ UNCHANGED <<all_args, prompt_keys, argument_combos, queue, full_df,
                   partial_df, score_df, defaults, other>>

\* list(kwargs.items())[0] on an empty dict
RunPartialEmpty(kwargs) ==
    /\ ~TooManyKwargs(Len(kwargs))
    /\ Len(kwargs) = 0
    /\ last' = Call("run_partial", "IndexError")
    /\ UNCHANGED <<all_args, prompt_keys, argument_combos, queue, full_df,
                   partial_df, score_df, defaults, other>>

RunPartialOne(kwargs, maxq) ==
    /\ ~TooManyKwargs(Len(kwargs))
    /\ Len(kwargs) > 0
    /\ LET arg_name  == kwargs[1][1]
           orig      == kwargs[1][2]
           arg_value == RenderArg(arg_name, orig)
           combos    == PartialCombos(all_args, arg_name, arg_value)
           n0        == Len(GetResults(queue))
           call      == [Call("run_partial", "None") EXCEPT
                           !.nkw = Len(kwargs), !.name = arg_name,
                           !.value = arg_value, !.combos = combos,
                           !.payloads = Payloads(combos)]
       IN /\ n0 + Len(combos) <= maxq
          /\ \E outcomes \in [1..Len(combos) -> Outcomes] :
               LET q1 == EnqueueAll(queue, Payloads(combos), outcomes)
                   ext == ExtendMaster(all_args, prompt_keys, arg_name,
                                       orig, arg_value)
               IN /\ queue' = q1
                  /\ IF NoNewResults(Len(GetResults(q1)) - n0)
                     THEN /\ last' = [call EXCEPT
                                        !.err = "PromptExperimentException"]
                          /\ UNCHANGED <<all_args, prompt_keys,
                                         argument_combos, full_df,
                                         partial_df, score_df, defaults,
                                         other>>
                     ELSE /\ full_df' = ConstructFull(q1)
                          /\ partial_df' = ConstructPartial(q1)
                          /\ score_df' = ConstructScore(q1)
                          /\ all_args' = ext.args
                          /\ prompt_keys' = ext.keys
                          /\ defaults' = DefaultsAfter(defaults, shared,
                                                       ext.args)
                          /\ other' = OtherAfter(other, shared, ext.args)
                          /\ argument_combos' =
                               IF ext.err = "None" /\ ext.args # all_args
                               THEN Prepare(ext.args) ELSE argument_combos
                          /\ last' = [call EXCEPT !.err = ext.err]

\* run_partial(**kwargs), with kwargs drawn from inputs, while the queue
\* holds at most maxq records
RunPartialOn(inputs, maxq) ==
    /\ \E kwargs \in inputs :
          \/ RunPartialRejected(kwargs)
          \/ RunPartialEmpty(kwargs)
          \/ RunPartialOne(kwargs, maxq)
    /\ loaded' = NoInstance
    /\ UNCHANGED <<experiment_id, revision_id, env_key, store, saved, shared>>

RunPartial == RunPartialOn(KwargsInputs, MaxQueue)

-----------------------------------------------------------------------------
(* Incremental Run Controller: run_one *)

NotOneResult_Above(delta) == delta > 1

\* len(self.queue.get_results()) - original_n_results != 1
NotOneResult(delta) == delta # 1

RunOneKeys == <<"model", "messages", "temperature", "top_p", "n", "stream",
                "stop", "max_tokens", "presence_penalty",
                "frequency_penalty", "logit_bias", "response_format", "seed",
                "functions", "function_call">>

\* The kwargs dict of lines 398-414
RunOneKwargs(given) ==
    [k \in Range(RunOneKeys) |->
       IF k \in DOMAIN given THEN given[k] ELSE RunOneDefaults[k]]

RunOneInputs ==
    [model : {"c"}, messages : {"m1"}, temperature : {"1.0", NoneVal}]

RunOneTables_Stale(q) ==
    LET n  == Len(q.results) - 1
        q0 == [input_args |-> SubSeq(q.input_args, 1, n),
               results    |-> SubSeq(q.results, 1, n),
               latencies  |-> SubSeq(q.latencies, 1, n)]
    IN [full |-> ConstructFull(q0), partial |-> ConstructPartial(q0),
        score |-> ConstructScore(q0)]

\* The tables after line 428
RunOneTables(q) ==
    [full |-> ConstructFull(q), partial |-> ConstructPartial(q),
     score |-> ConstructScore(q)]

\* run_one(...), with the arguments drawn from inputs, while the queue holds
\* at most maxq records
RunOneOn(inputs, maxq) ==
    /\ \E given \in inputs, outcome \in Outcomes :
         LET kwargs == RunOneKwargs(given)
             payload == FilterPayload(kwargs)
             n0 == Len(GetResults(queue))
             q1 == Enqueue(queue, payload, outcome)
             call == [Call("run_one", "None") EXCEPT
                        !.combos = <<kwargs>>, !.payloads = <<payload>>]
         IN /\ n0 + 1 <= maxq
            /\ queue' = q1
            /\ IF NotOneResult(Len(GetResults(q1)) - n0)
               THEN /\ last' = [call EXCEPT
                                  !.err = "PromptExperimentException"]
                    /\ UNCHANGED <<full_df, partial_df, score_df>>
               ELSE /\ full_df' = RunOneTables(q1).full
                    /\ partial_df' = RunOneTables(q1).partial
                    /\ score_df' = RunOneTables(q1).score
                    /\ last' = call
    /\ loaded' = NoInstance
    /\ UNCHANGED <<all_args, prompt_keys, argument_combos, experiment_id,
                   revision_id, env_key, store, saved, defaults, shared,
                   other>>

RunOne == RunOneOn(RunOneInputs, MaxQueue)

-----------------------------------------------------------------------------
(* State Transfer Layer *)

\* _get_state(): what save pickles.  Pickling keeps values and keeps the
\* sharing of the message list between prompt_keys and all_args.
GetState(keys, args, full, partial, score) ==
    [state_params |-> [prompt_keys |-> keys, all_args |-> args,
                       partial_col_names |-> partial.cols,
                       score_col_names |-> score.cols],
     full_df |-> full]

\* os.environ["HEGELAI_API_KEY"] raises KeyError when the variable is unset
EnvironRaises(is_set) == ~is_set

\* os.environ["HEGELAI_API_KEY"] is None: a value of os.environ is a string
EnvironIsNone(is_set) == FALSE

\* name is None and self._experiment_id is None
NoNameNoId(name, eid) == name = NoneVal /\ eid = NoneId

SaveNames == {NoneVal, "exp"}

\* The identifiers the store answers a POST with.
AssignedExperimentId(eid) ==
    IF eid # NoneId THEN eid
    ELSE 1 + Cardinality({store[i].experiment_id : i \in 1..Len(store)})

AssignedRevisionId == Len(store) + 1

SaveExperiment ==
    /\ \E name \in SaveNames, accepted \in BOOLEAN :
         LET call == [Call("save", "None") EXCEPT !.name = name]
         IN IF NoNameNoId(name, experiment_id) \/ full_df.isNone
            THEN /\ last' = [call EXCEPT !.err = "RuntimeError"]
                 /\ UNCHANGED <<experiment_id, revision_id, store, saved>>
            ELSE IF EnvironRaises(env_key)
            THEN /\ last' = [call EXCEPT !.err = "KeyError"]
                 /\ UNCHANGED <<experiment_id, revision_id, store, saved>>
            ELSE IF EnvironIsNone(env_key)
            THEN /\ last' = [call EXCEPT !.err = "PermissionError"]
                 /\ UNCHANGED <<experiment_id, revision_id, store, saved>>
            ELSE /\ Len(store) < MaxRevisions
                 /\ last' = [call EXCEPT !.posted = TRUE]
                 /\ IF accepted
                    THEN /\ experiment_id' = AssignedExperimentId(experiment_id)
                         /\ revision_id' = AssignedRevisionId
                         /\ store' = Append(store,
                              [experiment_id |-> experiment_id',
                               revision_id |-> revision_id',
                               experiment_type |-> ExperimentType,
                               state |-> GetState(prompt_keys, all_args,
                                           full_df, partial_df, score_df)])
                         /\ saved' = Append(saved,
                              [all_args |-> all_args,
                               prompt_keys |-> prompt_keys,
                               full_df |-> full_df,
                               partial_df |-> partial_df,
                               score_df |-> score_df])
                    ELSE \* the answer carries no identifiers
                         /\ experiment_id' = NoneId
                         /\ revision_id' = NoneId
                         /\ UNCHANGED <<store, saved>>
    /\ loaded' = NoInstance
    /\ UNCHANGED <<all_args, prompt_keys, argument_combos, queue, full_df,
                   partial_df, score_df, env_key, defaults, shared, other>>

\* new_experiment_id != experiment_id (and the same test on revisions)
IdMismatch(returned, requested) == returned # requested

TypeMismatch_Inverted(experiment_type_str) ==
    experiment_type_str = ExperimentType

\* experiment_type_str != cls._experiment_type
TypeMismatch(experiment_type_str) == experiment_type_str # ExperimentType

\* pd.DataFrame(full_df)
DataFrame(df) == IF df.isNone THEN [NoneDf EXCEPT !.isNone = FALSE] ELSE df

LoadState_KeepsOwnArgs(state, eid, rid) ==
    LET params == state.state_params
        experiment == NewInstance([defaults EXCEPT
                         !.model = params.all_args.map["model"],
                         !.messages = params.all_args.map["messages"]])
        full == DataFrame(state.full_df)
    IN [experiment EXCEPT
          !.full_df = full,
          !.partial_df = Project(full, params.partial_col_names),
          !.score_df = Project(full, params.score_col_names),
          !.experiment_id = eid,
          !.revision_id = rid]

\* _load_state after the type check
LoadState(state, eid, rid) ==
    LET params == state.state_params
        experiment == NewInstance([defaults EXCEPT
                         !.model = params.all_args.map["model"],
                         !.messages = params.all_args.map["messages"]])
        full == DataFrame(state.full_df)
    IN [experiment EXCEPT
          !.prompt_keys = params.prompt_keys,
          !.all_args = params.all_args,
          !.full_df = full,
          !.partial_df = Project(full, params.partial_col_names),
          !.score_df = Project(full, params.score_col_names),
          !.experiment_id = eid,
          !.revision_id = rid]

Ids == 1..(MaxRevisions + 1)
LoadKinds == {"experiment", "revision"}

\* The blob a stable store answers the request with: the revision asked
\* for, or the latest revision of the experiment asked for (0 when none).
StableSource(kind, req) ==
    LET hits == {i \in 1..Len(store) :
                   IF kind = "revision" THEN store[i].revision_id = req
                   ELSE store[i].experiment_id = req}
    IN IF hits = {} THEN 0
       ELSE CHOOSE i \in hits : \A j \in hits : j <= i

\* What the store may answer with when it holds the given blob: the blob,
\* or the blob under another identifier or another experiment-type tag.
Answers(blob) ==
    {blob, [blob EXCEPT !.experiment_type = "OtherExperiment"],
           [blob EXCEPT !.experiment_id = @ + 1],
           [blob EXCEPT !.revision_id = @ + 1]}

\* load_experiment / load_revision
Load ==
    /\ \E kind \in LoadKinds, req \in Ids :
         LET call == [Call("load_" \o kind, "None") EXCEPT !.req = req]
         IN IF EnvironRaises(env_key)
            THEN /\ last' = [call EXCEPT !.err = "KeyError"]
                 /\ loaded' = NoInstance
            ELSE IF EnvironIsNone(env_key)
            THEN /\ last' = [call EXCEPT !.err = "PermissionError"]
                 /\ loaded' = NoInstance
            ELSE \/ \* status_code != 200: printed, None is returned
                    /\ last' = [call EXCEPT !.posted = TRUE]
                    /\ loaded' = NoInstance
                 \/ \E i \in 1..Len(store) : \E ans \in Answers(store[i]) :
                      LET blob == store[i]
                          e == ans.experiment_id
                          r == ans.revision_id
                          t == ans.experiment_type
                          stable == i = StableSource(kind, req) /\ ans = blob
                          answered == [call EXCEPT !.posted = TRUE,
                                         !.src = i, !.stable = stable,
                                         !.name = t,
                                         !.value = IF kind = "revision"
                                                   THEN r ELSE e]
                      IN IF IdMismatch(IF kind = "revision" THEN r ELSE e, req)
                            \/ TypeMismatch(t)
                         THEN /\ last' = [answered EXCEPT !.err = "RuntimeError"]
                              /\ loaded' = NoInstance
                         ELSE /\ last' = answered
                              /\ loaded' = LoadState(blob.state,
                                             IF kind = "revision" THEN e ELSE req,
                                             IF kind = "revision" THEN req ELSE r)
    /\ UNCHANGED <<all_args, prompt_keys, argument_combos, queue, full_df,
                   partial_df, score_df, experiment_id, revision_id, env_key,
                   store, saved, defaults, shared, other>>

-----------------------------------------------------------------------------
(* The specification *)

\* A call of the constructor: the candidate lists given for model,
\* messages, temperature and logit_bias, the other parameters left at their
\* defaults.
Given(model, messages, temperature, logit_bias) ==
    [DefaultArgs EXCEPT !.model = model, !.messages = messages,
                        !.temperature = temperature,
                        !.logit_bias = logit_bias]

Constructions ==
    {Given(<<"a", "b">>, <<"m1">>, <<"1.0">>, <<NoneVal>>),
     Given(<<"a", "b">>, <<"s1">>, <<"1.0">>, <<NoneVal>>),
     Given(<<"a", "b">>, <<"m1">>, <<"0.0", "1.0">>, <<NoneVal>>),
     Given(<<"a", "b">>, <<"m1">>, <<"1.0">>, <<"lb1">>),
     Given(<<"a">>, <<"s1">>, <<"0.0", "1.0">>, <<"lb1">>)}

StoreConstructions ==
    {Given(<<"a">>, <<"m1">>, <<"0.0", "1.0">>, <<NoneVal>>),
     Given(<<"a">>, <<"s1">>, <<"0.0", "1.0">>, <<NoneVal>>)}

\* The state after one of the given constructions, in a process whose
\* environment is one of envs.
InitFrom(constructions, explicit, envs) ==
    /\ \E given \in constructions :
         LET self == NewInstance(given)
         IN /\ shared = SharedKeys(self.all_args, explicit)
            /\ all_args = self.all_args
            /\ prompt_keys = self.prompt_keys
            /\ argument_combos = self.argument_combos
            /\ queue = self.queue
            /\ full_df = self.full_df
            /\ partial_df = self.partial_df
            /\ score_df = self.score_df
            /\ experiment_id = self.experiment_id
            /\ revision_id = self.revision_id
    /\ env_key \in envs
    /\ store = <<>>
    /\ saved = <<>>
    /\ loaded = NoInstance
    /\ last = NoCall
    /\ defaults = DefaultArgs
    /\ other = NoOther

\* The parameters the constructions pass explicitly
GivenKeys == {"model", "messages", "temperature", "logit_bias"}

Init == InitFrom(Constructions, GivenKeys, {FALSE})

InitStore == InitFrom(StoreConstructions, GivenKeys, BOOLEAN)

NextRun == RunPartial \/ RunOne

StoreKwargs ==
    {<<>>, << <<"messages", "m2">> >>,
     << <<"model", "c">>, <<"messages", "m2">> >>}

StoreRunOneInputs == [model : {"c"}, messages : {"m1"}, temperature : {"1.0"}]

StoreRunPartial == RunPartialOn(StoreKwargs, MaxStoreQueue)

StoreRunOne == RunOneOn(StoreRunOneInputs, MaxStoreQueue)

Next == StoreRunPartial \/ StoreRunOne \/ SaveExperiment \/ Load

\* One instance and its runs
Spec == Init /\ [][NextRun]_vars

\* One instance, its runs, and the remote store
SpecStore == InitStore /\ [][Next]_vars

\* The bound on the queue while two instances are followed
MaxSharedQueue == 2

\* The parameters a caller of the constructor may pass, the others being
\* left out
ExplicitSets == {{}, {"model", "messages"}, {"model", "messages", "temperature"}}

\* The candidate lists __init__ runs with when the caller passes the
\* parameters in explicit from given: a parameter left out is bound to its
\* default object, whatever that object holds at the time of the call.
BoundArgs(defs, given, explicit) ==
    [k \in DOMAIN defs |-> IF k \in explicit THEN given[k] ELSE defs[k]]

OtherGiven == Given(<<"a">>, <<"m1">>, <<"0.5">>, <<NoneVal>>)

\* B = OllamaChatExperiment(...): the name B is bound to a new instance
ConstructOther ==
    /\ \E explicit \in ExplicitSets :
         LET bound == BoundArgs(defaults, OtherGiven, explicit)
             args  == InitAllArgs(bound)
         IN other' = [isNone |-> FALSE, all_args |-> args,
                      prompt_keys |-> InitPromptKeys(bound.messages),
                      shared |-> SharedKeys(args, explicit)]
    /\ last' = Call("construct", "None")
    /\ loaded' = NoInstance
    /\ UNCHANGED <<all_args, prompt_keys, argument_combos, queue, full_df,
                   partial_df, score_df, experiment_id, revision_id, env_key,
                   store, saved, defaults, shared>>

SharedConstructions == {Given(<<"a">>, <<"m1">>, <<"1.0">>, <<NoneVal>>)}

\* The first instance is built with model and messages only, or with no
\* argument at all
InitShared ==
    \/ InitFrom(SharedConstructions, {"model", "messages"}, {FALSE})
    \/ InitFrom({DefaultArgs}, {}, {FALSE})

SharedKwargs ==
    {<<>>, << <<"temperature", "0.0">> >>, << <<"temperature", "1.0">> >>,
     << <<"model", "c">> >>, << <<"messages", "m2">> >>,
     << <<"model", "c">>, <<"messages", "m2">> >>}

SharedRunPartial == RunPartialOn(SharedKwargs, MaxSharedQueue)

SharedRunOne == RunOneOn(StoreRunOneInputs, MaxSharedQueue)

NextShared == SharedRunPartial \/ SharedRunOne \/ ConstructOther

\* Two instances of the class in one process
SpecShared == InitShared /\ [][NextShared]_vars

-----------------------------------------------------------------------------
(* Properties *)

IsRun(call) == call.op \in {"run_one", "run_partial"}
IsLoad(call) == call.op \in {"load_experiment", "load_revision"}
ReturnedNormally(call) == call.err = "None"

\* A run_partial call that got past the count of its keyword arguments
PartialOf(call) == call.op = "run_partial" /\ call.nkw = 1

\* C1: when run_partial(name=v) returns normally, the candidate list of name
\* is the previous list when v was in it and the previous list followed by
\* one v when it was not, and every other candidate list is unchanged.
C1_MasterListExtended ==
    [][(PartialOf(last') /\ ReturnedNormally(last')) =>
         LET name == last'.name
             v    == last'.value
             old  == all_args.map[name]
         IN /\ DOMAIN all_args'.map = DOMAIN all_args.map
            /\ all_args'.map[name] = IF In(v, old) THEN old ELSE Append(old, v)
            /\ \A k \in DOMAIN all_args.map \ {name} :
                 all_args'.map[k] = all_args.map[k]]_vars

\* The number of combinations of P with the list of name replaced by one value
RECURSIVE OthersProduct(_, _, _)
OthersProduct(P, name, i) ==
    IF i > Len(P.order) THEN 1
    ELSE (IF P.order[i] = name THEN 1 ELSE Len(P.map[P.order[i]]))
         * OthersProduct(P, name, i + 1)

\* C2: when run_partial(name=v) returns normally, the row count of the
\* ResultTable and the result count of the queue have both grown by the
\* number of combinations generated for v, the product of the sizes of the
\* other candidate lists.
C2_ExactIncrease ==
    [][(PartialOf(last') /\ ReturnedNormally(last')) =>
         /\ Len(last'.combos) = OthersProduct(all_args, last'.name, 1)
         /\ Rows(full_df') - Rows(full_df) = Len(last'.combos)
         /\ Len(queue'.results) - Len(queue.results) = Len(last'.combos)]_vars

\* C3: run_one raises PromptExperimentException or adds exactly one row to
\* the ResultTable, and leaves the ParameterSet as it was in both cases.
C3_RunOneDelta ==
    [][last'.op = "run_one" =>
         /\ \/ last'.err = "PromptExperimentException"
            \/ /\ ReturnedNormally(last')
               /\ Rows(full_df') = Rows(full_df) + 1
         /\ all_args' = all_args]_vars

C3_Witness ==
    /\ last.op = "run_one"
    /\ ReturnedNormally(last)
    /\ Rows(full_df) >= 2

\* The keys and lists of P with the list of name replaced by <<v>>
SubstKeys(P, name) ==
    IF name \in DOMAIN P.map THEN P.order ELSE Append(P.order, name)

SubstList(P, name, v, k) == IF k = name THEN <<v>> ELSE P.map[k]

\* The number of combinations between two successive values of the key at
\* position i: the product of the sizes of the lists after it
RECURSIVE Stride(_, _, _, _)
Stride(P, name, v, i) ==
    IF i >= Len(SubstKeys(P, name)) THEN 1
    ELSE Len(SubstList(P, name, v, SubstKeys(P, name)[i + 1]))
         * Stride(P, name, v, i + 1)

\* The j-th combination of the cartesian product, the last key varying fastest
NthCombination(P, name, v, j) ==
    [k \in Range(SubstKeys(P, name)) |->
       LET l == SubstList(P, name, v, k)
           i == IndexOf(SubstKeys(P, name), k)
       IN l[(((j - 1) \div Stride(P, name, v, i)) % Len(l)) + 1]]

\* C4: the combinations run_partial(name=v) generates from P are the
\* cartesian product of P with P[name] replaced by [v]: as many as the
\* product of the sizes of the other lists, each with one value for every
\* key of P and name mapped to v, pairwise different when no candidate list
\* repeats a value, and in the order fixed by P (the last key varies fastest).
C4_PartialCombos ==
    [][PartialOf(last') =>
         LET P    == all_args
             name == last'.name
             v    == last'.value
             cs   == last'.combos
         IN /\ Len(cs) = OthersProduct(P, name, 1)
            /\ \A j \in 1..Len(cs) :
                 /\ DOMAIN cs[j] = (DOMAIN P.map) \cup {name}
                 /\ cs[j][name] = v
                 /\ \A k \in DOMAIN P.map \ {name} : In(cs[j][k], P.map[k])
                 /\ cs[j] = NthCombination(P, name, v, j)
            /\ (\A k \in DOMAIN P.map : NoDup(P.map[k])) => NoDup(cs)]_vars

C4_Witness ==
    /\ PartialOf(last)
    /\ ReturnedNormally(last)
    /\ Len(last.combos) >= 2
    /\ Len(all_args.map["model"]) >= 3

\* C5: run_partial called with more than one (name, value) pair raises
\* RuntimeError before any request is enqueued and leaves the queue, the
\* tables, the ParameterSet and the PromptKeyMap unchanged.
C5_TooManyRejected ==
    [][(last'.op = "run_partial" /\ last'.nkw > 1) =>
         /\ last'.err = "RuntimeError"
         /\ last'.payloads = <<>>
         /\ UNCHANGED <<queue, full_df, partial_df, score_df, all_args,
                        prompt_keys>>]_vars

C5_Witness ==
    /\ last.op = "run_partial"
    /\ last.nkw = 2
    /\ last.err = "RuntimeError"
    /\ Rows(full_df) >= 1

\* C6: save sends its POST only when a name was given or an experiment
\* identifier was assigned, the ResultTable is non-empty and a credential is
\* configured; when these requirements on the name and the table are met
\* and HEGELAI_API_KEY is not set, save raises PermissionError before any
\* network call and leaves the experiment and revision identifiers as they
\* were.
C6_SaveNeedsCredential ==
    [][last'.op = "save" =>
         LET named == last'.name # NoneVal \/ experiment_id # NoneId
         IN /\ last'.posted => (named /\ ~full_df.isNone /\ env_key)
            /\ (named /\ ~full_df.isNone /\ ~env_key) =>
                 /\ last'.err = "PermissionError"
                 /\ ~last'.posted
                 /\ UNCHANGED <<experiment_id, revision_id>>]_vars

\* C7: load and load_revision return an instance only if the identifier in
\* the answer equals the requested one and the experiment-type tag in the
\* answer is the tag of the class; on either mismatch they raise
\* RuntimeError, return no instance, and leave the existing instance and the
\* store as they were.
C7_LoadChecks ==
    [][IsLoad(last') =>
         LET answered == last'.src # 0
             matches  == last'.value = last'.req /\ last'.name = ExperimentType
         IN /\ ~loaded'.isNone => (answered /\ matches)
            /\ (answered /\ ~matches) =>
                 /\ last'.err = "RuntimeError"
                 /\ loaded'.isNone
                 /\ UNCHANGED <<all_args, prompt_keys, argument_combos, queue,
                                full_df, partial_df, score_df, experiment_id,
                                revision_id, store>>]_vars

C7_Witness ==
    /\ IsLoad(last)
    /\ last.src # 0
    /\ last.value = last.req
    /\ last.name # ExperimentType
    /\ last.err = "RuntimeError"

\* A table is the projection of full onto the columns names
IsProjection(df, full, names) ==
    /\ ~df.isNone
    /\ df.cols = names
    /\ Len(df.rows) = Len(full.rows)
    /\ \A i \in 1..Len(df.rows) :
         /\ DOMAIN df.rows[i] = Range(names)
         /\ \A c \in Range(names) : df.rows[i][c] = full.rows[i][c]

\* C8: with a stable store, the instance load returns has the ResultTable,
\* the ParameterSet and the PromptKeyMap the saved instance had when save
\* serialized it, and its partial and score views are the projections of
\* that table onto the persisted partial and score column names.
C8_RoundTrip ==
    (IsLoad(last) /\ last.stable /\ ~loaded.isNone) =>
       LET snap   == saved[last.src]
           params == store[last.src].state.state_params
       IN /\ loaded.full_df = snap.full_df
          /\ loaded.all_args = snap.all_args
          /\ loaded.prompt_keys = snap.prompt_keys
          /\ IsProjection(loaded.partial_df, snap.full_df,
                          params.partial_col_names)
          /\ IsProjection(loaded.score_df, snap.full_df,
                          params.score_col_names)
          /\ loaded.partial_df = snap.partial_df
          /\ loaded.score_df = snap.score_df

C8_Witness ==
    /\ IsLoad(last)
    /\ last.stable
    /\ ~loaded.isNone
    /\ Rows(loaded.full_df) >= 2
    /\ Len(loaded.all_args.map["messages"]) >= 2

\* C9: run_partial with a name that is not a key of the ParameterSet raises
\* the usage error (RuntimeError) at once: no request is enqueued and no row
\* is added to the ResultTable.
C9_UnknownNameRejected ==
    [][(PartialOf(last') /\ last'.name \notin DOMAIN all_args.map) =>
         /\ last'.err = "RuntimeError"
         /\ last'.payloads = <<>>
         /\ queue' = queue
         /\ full_df' = full_df]_vars

\* C10: after every run_one or run_partial that returns normally the
\* ResultTable holds one row per record of the queue, built from those
\* records in order; no call lowers the row count, and the rows a table had
\* keep their place and their values.
C10_AppendOnly ==
    [][IsRun(last') =>
         /\ ReturnedNormally(last') =>
              /\ ~full_df'.isNone
              /\ Len(full_df'.rows) = Len(queue'.results)
              /\ \A i \in 1..Len(queue'.results) :
                   /\ full_df'.rows[i]["response"] = queue'.results[i]
                   /\ \A k \in DOMAIN queue'.input_args[i] :
                        full_df'.rows[i][k] = queue'.input_args[i][k]
         /\ Rows(full_df') >= Rows(full_df)
         /\ \A i \in 1..Rows(full_df) :
              \A c \in DOMAIN full_df.rows[i] :
                 full_df'.rows[i][c] = full_df.rows[i][c]]_vars

C10_Witness ==
    /\ IsRun(last)
    /\ ReturnedNormally(last)
    /\ Rows(full_df) >= 3

\* The values a request payload never carries
Unsendable == {NoneVal, InfVal}

\* Each list of old is the beginning of the list of new under the same key
ListsKept(old, new) ==
    /\ DOMAIN new.map = DOMAIN old.map
    /\ \A k \in DOMAIN old.map :
         /\ Len(new.map[k]) >= Len(old.map[k])
         /\ SubSeq(new.map[k], 1, Len(old.map[k])) = old.map[k]

\* C11: every payload run_partial or run_one hands to the executable holds
\* exactly the entries of its combination whose value is neither None nor
\* the infinite sentinel; there is one payload per combination, the records
\* the queue adds carry these payloads, and the filtering removes nothing
\* from a candidate list of the ParameterSet nor from the number of
\* combinations.
C11_PayloadFiltered ==
    [][(IsRun(last') /\ last'.nkw <= 1) =>
         LET cs == last'.combos
             ps == last'.payloads
         IN /\ Len(ps) = Len(cs)
            /\ \A i \in 1..Len(cs) :
                 /\ DOMAIN ps[i] =
                      {k \in DOMAIN cs[i] : cs[i][k] \notin Unsendable}
                 /\ \A k \in DOMAIN ps[i] : ps[i][k] = cs[i][k]
            /\ \A i \in (Len(queue.input_args) + 1)..Len(queue'.input_args) :
                 In(queue'.input_args[i], ps)
            /\ ListsKept(all_args, all_args')
            /\ PartialOf(last') =>
                 Len(cs) = OthersProduct(all_args, last'.name, 1)]_vars

C11_Witness ==
    /\ PartialOf(last)
    /\ ReturnedNormally(last)
    /\ Len(last.payloads) >= 2
    /\ \E k \in DOMAIN last.combos[1] : last.combos[1][k] = InfVal
    /\ \E k \in DOMAIN last.combos[1] : last.combos[1][k] = NoneVal
    /\ \E k \in DOMAIN all_args.map : In(InfVal, all_args.map[k])

\* C12: a run_partial or run_one call on one instance leaves the ParameterSet
\* and the PromptKeyMap of every other instance as they were, and every list
\* of a newly built instance that the caller left at its default is the
\* documented default candidate list.
C12_StateConfined ==
    [][/\ IsRun(last') =>
            /\ other'.all_args = other.all_args
            /\ other'.prompt_keys = other.prompt_keys
       /\ last'.op = "construct" =>
            \A k \in other'.shared : other'.all_args.map[k] = DefaultArgs[k]]_vars

=============================================================================
